---- MODULE Spec2Model ----
(***************************************************************************)
(* Model of the POS domain: PriceConfig (models/config.py), Transaction    *)
(* and Receipt (models/transaction.py) and POSController                   *)
(* (controllers/pos_controller.py).                                        *)
(*                                                                         *)
(* Money is counted in thousandths of a peso, so '5.00' is 5000.  The      *)
(* price inputs are chosen so that no amount lies exactly half-way between *)
(* two centavos; "{x:.2f}" is then rounding to the nearest centavo.        *)
(* Transaction.timestamp is assigned in the constructor and read nowhere;  *)
(* it is left out.  The clock is read only by Receipt(), and strftime      *)
(* reads nothing finer than its seconds: a timestamp is a count of whole   *)
(* seconds, and a new Receipt takes a time not earlier than the one of the *)
(* Receipt it replaces.                                                    *)
(***************************************************************************)
EXTENDS Integers, Sequences, FiniteSets, TLC

VARIABLES config, config_file, current_receipt, receipt_history, receipts_dir, ret, txn

vars == <<config, config_file, current_receipt, receipt_history, receipts_dir, ret, txn>>

(* ------------------------------ bounds --------------------------------- *)
\* most transactions held by the current Receipt
MaxTx == 2
\* most receipts kept in receipt_history
MaxHistory == 2

(* ------------------------- ServiceType (enum) --------------------------- *)
ServiceType == {"Print", "Photocopy", "Scan"}

\* str.lower() on the three enum values
lower(s) ==
    CASE s = "Print" -> "print"
      [] s = "Photocopy" -> "photocopy"
      [] s = "Scan" -> "scan"
      [] OTHER -> s

\* str.upper() on the service names the program passes around
upper(s) ==
    CASE s = "print" -> "PRINT"
      [] s = "photocopy" -> "PHOTOCOPY"
      [] s = "scan" -> "SCAN"
      [] OTHER -> s

(* ----------------------------- PriceConfig ------------------------------ *)
\* a stored option value: the decimal text of a number, or text float() rejects
str(price) == [kind |-> "dec", val |-> price]
Malformed == [kind |-> "bad", val |-> 0]

\* float(text): the number, or ValueError
float(text) ==
    IF text.kind = "dec" THEN [exc |-> "none", val |-> text.val]
    ELSE [exc |-> "ValueError", val |-> 0]

\* load_default_config with the colored print price copied from the
\* monochrome one
load_default_config_colored_copied ==
    [s \in {"PRINT", "PHOTOCOPY", "SCAN"} |->
        [k \in {"monochrome_price", "colored_price", "image_surcharge"} |->
            CASE k = "image_surcharge" -> str(2000)
              [] s = "PRINT" -> str(5000)
              [] s = "PHOTOCOPY" -> IF k = "monochrome_price" THEN str(3000) ELSE str(5000)
              [] OTHER -> IF k = "monochrome_price" THEN str(2000) ELSE str(4000)]]

load_default_config ==
    [s \in {"PRINT", "PHOTOCOPY", "SCAN"} |->
        CASE s = "PRINT" ->
               [k \in {"monochrome_price", "colored_price", "image_surcharge"} |->
                   CASE k = "monochrome_price" -> str(5000)
                     [] k = "colored_price" -> str(8000)
                     [] OTHER -> str(2000)]
          [] s = "PHOTOCOPY" ->
               [k \in {"monochrome_price", "colored_price", "image_surcharge"} |->
                   CASE k = "monochrome_price" -> str(3000)
                     [] k = "colored_price" -> str(5000)
                     [] OTHER -> str(2000)]
          [] OTHER ->
               [k \in {"monochrome_price", "colored_price", "image_surcharge"} |->
                   CASE k = "monochrome_price" -> str(2000)
                     [] k = "colored_price" -> str(4000)
                     [] OTHER -> str(2000)]]

\* the persisted file is absent
NoFile == [exists |-> FALSE, sections |-> <<>>]

\* read() with a section of the file replacing the whole section of cfg
read_sections_replaced(cfg, file) ==
    [s \in DOMAIN cfg \cup DOMAIN file.sections |->
        IF s \in DOMAIN file.sections THEN file.sections[s] ELSE cfg[s]]

\* ConfigParser.read(file): the file's sections and options laid over cfg
read(cfg, file) ==
    [s \in DOMAIN cfg \cup DOMAIN file.sections |->
        IF s \notin DOMAIN file.sections THEN cfg[s]
        ELSE IF s \notin DOMAIN cfg THEN file.sections[s]
        ELSE [k \in DOMAIN cfg[s] \cup DOMAIN file.sections[s] |->
                 IF k \in DOMAIN file.sections[s] THEN file.sections[s][k] ELSE cfg[s][k]]]

\* load_config that never reads the file
load_config_skipped(cfg, file) == cfg

load_config(cfg, file) == IF file.exists THEN read(cfg, file) ELSE cfg

\* PriceConfig(): defaults, then the file laid over them
PriceConfig(file) == load_config(load_default_config, file)

\* ConfigParser.getfloat(section, option, fallback=...): the fallback covers a
\* missing section or option only; a value float() rejects raises ValueError
getfloat(cfg, section, option, fallback) ==
    IF section \notin DOMAIN cfg THEN [exc |-> "none", val |-> fallback]
    ELSE IF option \notin DOMAIN cfg[section] THEN [exc |-> "none", val |-> fallback]
    ELSE float(cfg[section][option])

get_monochrome_price(cfg, service) == getfloat(cfg, upper(service), "monochrome_price", 100)
get_colored_price(cfg, service) == getfloat(cfg, upper(service), "colored_price", 250)
get_image_surcharge(cfg, service) == getfloat(cfg, upper(service), "image_surcharge", 50)

\* config[section][option] = str(price), the section created when absent
set_option(cfg, section, option, price) ==
    [s \in DOMAIN cfg \cup {section} |->
        IF s # section THEN cfg[s]
        ELSE [k \in (IF s \in DOMAIN cfg THEN DOMAIN cfg[s] ELSE {}) \cup {option} |->
                 IF k = option THEN str(price) ELSE cfg[s][k]]]

set_monochrome_price(cfg, service, price) == set_option(cfg, upper(service), "monochrome_price", price)
set_colored_price(cfg, service, price) == set_option(cfg, upper(service), "colored_price", price)
set_image_surcharge(cfg, service, price) == set_option(cfg, upper(service), "image_surcharge", price)

(* ----------------------------- Transaction ------------------------------ *)
Transaction(service_type, pages, is_colored, has_images) ==
    [service_type |-> service_type, pages |-> pages, is_colored |-> is_colored,
     has_images |-> has_images, subtotal |-> 0]

\* calculate_subtotal with the surcharge added for colored pages only
calculate_subtotal_color_gated(t, cfg) ==
    LET service_name == lower(t.service_type)
        base_price == IF t.is_colored THEN get_colored_price(cfg, service_name)
                      ELSE get_monochrome_price(cfg, service_name)
        image_surcharge == get_image_surcharge(cfg, service_name)
    IN  IF base_price.exc # "none"
        THEN [exc |-> base_price.exc, val |-> 0, t |-> t]
        ELSE LET base == base_price.val * t.pages
             IN  IF ~(t.has_images /\ t.is_colored)
                 THEN [exc |-> "none", val |-> base, t |-> [t EXCEPT !.subtotal = base]]
                 ELSE IF image_surcharge.exc # "none"
                 THEN [exc |-> image_surcharge.exc, val |-> 0,
                       t |-> [t EXCEPT !.subtotal = base]]
                 ELSE [exc |-> "none", val |-> base + image_surcharge.val * t.pages,
                       t |-> [t EXCEPT !.subtotal = base + image_surcharge.val * t.pages]]

\* calculate_subtotal: the exception raised (or "none"), the value returned and
\* the transaction as the call leaves it.  A failing base-price lookup leaves
\* the transaction alone; a failing surcharge lookup comes after the base cost
\* has been stored.
calculate_subtotal(t, cfg) ==
    LET service_name == lower(t.service_type)
        base_price == IF t.is_colored THEN get_colored_price(cfg, service_name)
                      ELSE get_monochrome_price(cfg, service_name)
        image_surcharge == get_image_surcharge(cfg, service_name)
    IN  IF base_price.exc # "none"
        THEN [exc |-> base_price.exc, val |-> 0, t |-> t]
        ELSE LET base == base_price.val * t.pages
             IN  IF ~t.has_images
                 THEN [exc |-> "none", val |-> base, t |-> [t EXCEPT !.subtotal = base]]
                 ELSE IF image_surcharge.exc # "none"
                 THEN [exc |-> image_surcharge.exc, val |-> 0,
                       t |-> [t EXCEPT !.subtotal = base]]
                 ELSE [exc |-> "none", val |-> base + image_surcharge.val * t.pages,
                       t |-> [t EXCEPT !.subtotal = base + image_surcharge.val * t.pages]]

(* ------------------------------- Receipt -------------------------------- *)
\* datetime.now() read in second t: the calendar fields strftime uses.
\* Second 0 is 12/31/2024 23:59:59; the next second starts a new year.
datetime(t) ==
    LET k == t
    IN  IF k = 0
        THEN [year |-> 2024, month |-> 12, day |-> 31, hour |-> 23, minute |-> 59, second |-> 59]
        ELSE [year |-> 2025, month |-> 1, day |-> 1, hour |-> ((k - 1) \div 3600) % 24,
              minute |-> ((k - 1) \div 60) % 60, second |-> (k - 1) % 60]

Receipt(now) == [transactions |-> <<>>, timestamp |-> now, total |-> 0]

RECURSIVE sum(_)
\* sum(transaction.subtotal for transaction in transactions)
sum(transactions) ==
    IF transactions = <<>> THEN 0
    ELSE Head(transactions).subtotal + sum(Tail(transactions))

\* calculate_total without the recomputation: the cached total is kept
calculate_total_kept(r) == r

calculate_total(r) == [r EXCEPT !.total = sum(r.transactions)]

\* add_transaction that folds a transaction into the last one when both are
\* of the same service and flags
Receipt_add_transaction_merging(r, t) ==
    LET n == Len(r.transactions)
    IN  IF n > 0 /\ r.transactions[n].service_type = t.service_type
              /\ r.transactions[n].is_colored = t.is_colored
              /\ r.transactions[n].has_images = t.has_images
        THEN calculate_total([r EXCEPT !.transactions[n].pages = @ + t.pages,
                                       !.transactions[n].subtotal = @ + t.subtotal])
        ELSE calculate_total([r EXCEPT !.transactions = Append(@, t)])

Receipt_add_transaction(r, t) ==
    calculate_total([r EXCEPT !.transactions = Append(@, t)])

\* list.pop() without its argument: the last element goes
pop_last(transactions, index) ==
    [i \in 1..(Len(transactions) - 1) |-> transactions[i]]

\* list.pop(index) for 0 <= index < len: index is 0-based, sequences 1-based
pop(transactions, index) ==
    [i \in 1..(Len(transactions) - 1) |->
        IF i <= index THEN transactions[i] ELSE transactions[i + 1]]

\* remove_transaction with the lower bound of the guard missing: a negative
\* index reaches list.pop, which counts it from the end
Receipt_remove_transaction_negative(r, index) ==
    LET n == Len(r.transactions)
    IN  IF index < n /\ -n <= index
        THEN [exc |-> "none",
              r |-> calculate_total([r EXCEPT !.transactions =
                                        pop(@, IF index < 0 THEN index + n ELSE index)])]
        ELSE [exc |-> "none", r |-> r]

\* Receipt.remove_transaction: the exception raised (always "none": an index
\* outside [0, len) is skipped silently) and the Receipt as the call leaves it
Receipt_remove_transaction(r, index) ==
    IF 0 <= index /\ index < Len(r.transactions)
    THEN [exc |-> "none", r |-> calculate_total([r EXCEPT !.transactions = pop(@, index)])]
    ELSE [exc |-> "none", r |-> r]

\* a file name that also carries the number of transactions of the Receipt
get_receipt_filename_counted(r) ==
    LET d == datetime(r.timestamp)
    IN  <<d.month, d.day, d.year, d.hour, d.minute, d.second, Len(r.transactions)>>

\* strftime("%m-%d-%Y_%H-%M-%S") inside "Receipt_....txt": the fields in the
\* order they are written
get_receipt_filename(r) ==
    LET d == datetime(r.timestamp)
    IN  <<d.month, d.day, d.year, d.hour, d.minute, d.second>>

\* "{x:.2f}": the amount in centavos, rounded to the nearest
fmt2(x) == (x + 5) \div 10

to_string(t) ==
    [service |-> t.service_type, pages |-> t.pages,
     color_str |-> IF t.is_colored THEN "Colored" ELSE "Monochrome",
     images_str |-> IF t.has_images THEN " (with images)" ELSE "",
     subtotal |-> fmt2(t.subtotal)]

\* generate_receipt_text with enumerate() left at its default start of 0
generate_receipt_text_zero_based(r) ==
    LET d == datetime(r.timestamp)
    IN  [date |-> <<d.month, d.day, d.year>>,
         time |-> <<IF d.hour % 12 = 0 THEN 12 ELSE d.hour % 12, d.minute, d.second,
                    IF d.hour < 12 THEN "AM" ELSE "PM">>,
         lines |-> [i \in 1..Len(r.transactions) |->
                       [number |-> i - 1, text |-> to_string(r.transactions[i])]],
         total |-> fmt2(r.total)]

\* the lines of the receipt that depend on the Receipt (the banners and
\* separators are fixed text): date, 12-hour time, the numbered transaction
\* lines and the TOTAL line
generate_receipt_text(r) ==
    LET d == datetime(r.timestamp)
    IN  [date |-> <<d.month, d.day, d.year>>,
         time |-> <<IF d.hour % 12 = 0 THEN 12 ELSE d.hour % 12, d.minute, d.second,
                    IF d.hour < 12 THEN "AM" ELSE "PM">>,
         lines |-> [i \in 1..Len(r.transactions) |->
                       [number |-> i, text |-> to_string(r.transactions[i])]],
         total |-> fmt2(r.total)]

(* ------------------------------- inputs --------------------------------- *)
\* config.ini as the program may find it at start: absent, or holding one
\* valid option ('3.008') of one section and one option whose text is no number
PersistedInputs ==
    {NoFile,
     [exists |-> TRUE,
      sections |-> [s \in {"PHOTOCOPY", "PRINT"} |->
                       IF s = "PHOTOCOPY" THEN [k \in {"monochrome_price"} |-> str(3008)]
                       ELSE [k \in {"colored_price"} |-> Malformed]]]}

\* (service_type, pages, is_colored, has_images) passed to add_transaction
AddInputs ==
    {<<"Print", 5, TRUE, TRUE>>, <<"Photocopy", 3, FALSE, FALSE>>, <<"Scan", 0, TRUE, FALSE>>}

\* indices passed to remove_transaction: negative, in range, len and beyond
RemoveInputs == -1..MaxTx

\* (service, monochrome_price, colored_price, image_surcharge) passed to update_pricing
PricingInputs == {<<"print", 6000, 9000, 3000>>}

\* the seconds in which the program may read the clock
Clock == {0, 1}

\* what the file system does to an export or a save: all of it, nothing
\* (makedirs or open raises), or open truncates the file and the write raises
\* before any of the text is on disk.  A failed export is modelled in memory
\* only: the receipts directory is taken to stay as it was.
FsOutcomes == {"ok", "open_fails", "write_fails"}

(* ---------------------------- POSController ----------------------------- *)
None == "None"

\* what the last call gave back: the exception it raised ("none" when it
\* returned) and the value returned, kept by its type: a truth value, a
\* number, a Transaction, a path or a preview dict (the last three as a
\* sequence of at most one)
Returned(op) ==
    [op |-> op, exc |-> "none", bool |-> FALSE, number |-> 0, transaction |-> <<>>, path |-> <<>>,
     preview |-> <<>>]
ReturnedPreview(op, preview) == [Returned(op) EXCEPT !.preview = <<preview>>]
ReturnedBool(op, b) == [Returned(op) EXCEPT !.bool = b]
ReturnedNumber(op, x) == [Returned(op) EXCEPT !.number = x]
ReturnedTransaction(op, t) == [Returned(op) EXCEPT !.transaction = <<t>>]
ReturnedPath(op, path) == [Returned(op) EXCEPT !.path = <<path>>]
Raised(op, exc) == [Returned(op) EXCEPT !.exc = exc]

\* POSController(): the price table from config.ini, an empty Receipt, no history
Init ==
    /\ \E file \in PersistedInputs :
         /\ config_file = file
         /\ config = PriceConfig(file)
    /\ current_receipt = Receipt(0)
    /\ receipt_history = <<>>
    /\ receipts_dir = <<>>
    /\ ret = Returned("__init__")
    /\ txn = None

add_transaction(service_type, pages, is_colored, has_images) ==
    LET r == calculate_subtotal(Transaction(service_type, pages, is_colored, has_images), config)
    IN  /\ Len(current_receipt.transactions) < MaxTx
        /\ IF r.exc # "none"
           THEN /\ ret' = Raised("add_transaction", r.exc)
                /\ UNCHANGED current_receipt
           ELSE /\ current_receipt' = Receipt_add_transaction(current_receipt, r.t)
                /\ ret' = ReturnedTransaction("add_transaction", r.t)
        /\ UNCHANGED <<config, config_file, receipt_history, receipts_dir, txn>>

\* try: remove; return True / except IndexError: return False
remove_transaction(index) ==
    LET r == Receipt_remove_transaction(current_receipt, index)
    IN  /\ current_receipt' = r.r
        /\ ret' = ReturnedBool("remove_transaction", r.exc # "IndexError")
        /\ UNCHANGED <<config, config_file, receipt_history, receipts_dir, txn>>

\* clear_current_receipt that also empties the history
clear_current_receipt_with_history ==
    /\ \E now \in {t \in Clock : t >= current_receipt.timestamp} : current_receipt' = Receipt(now)
    /\ receipt_history' = <<>>
    /\ ret' = Returned("clear_current_receipt")
    /\ UNCHANGED <<config, config_file, receipts_dir, txn>>

clear_current_receipt ==
    /\ \E now \in {t \in Clock : t >= current_receipt.timestamp} : current_receipt' = Receipt(now)
    /\ ret' = Returned("clear_current_receipt")
    /\ UNCHANGED <<config, config_file, receipt_history, receipts_dir, txn>>

\* an export that writes nothing
write_file_skipped(dir, path, content) == dir

\* open(path, 'w') followed by write(content) on the receipts directory
write_file(dir, path, content) ==
    [p \in DOMAIN dir \cup {path} |-> IF p = path THEN content ELSE dir[p]]

\* os.path.join("receipts", filename)
join(dir, filename) == <<dir, filename>>

\* generate_receipt without its check for an empty Receipt
no_transactions_unchecked(r) == FALSE

\* "not self.current_receipt.transactions"
no_transactions(r) == r.transactions = <<>>

\* generate_receipt with the history append and the reset placed before the
\* file is written, so that a failing write comes after them
generate_receipt_reset_first ==
    IF no_transactions(current_receipt)
    THEN /\ ret' = Raised("generate_receipt", "ValueError")
         /\ UNCHANGED <<config, config_file, current_receipt, receipt_history, receipts_dir, txn>>
    ELSE LET receipt_content == generate_receipt_text(current_receipt)
             filename == join("receipts", get_receipt_filename(current_receipt))
         IN  \E fs \in FsOutcomes :
               /\ Len(receipt_history) < MaxHistory
               /\ receipt_history' = Append(receipt_history, current_receipt)
               /\ \E now \in {t \in Clock : t >= current_receipt.timestamp} :
                    current_receipt' = Receipt(now)
               /\ IF fs # "ok"
                  THEN /\ ret' = Raised("generate_receipt", "OSError")
                       /\ UNCHANGED receipts_dir
                  ELSE /\ receipts_dir' = write_file(receipts_dir, filename,
                                                     [whole |-> TRUE, text |-> receipt_content])
                       /\ ret' = ReturnedPath("generate_receipt", filename)
               /\ UNCHANGED <<config, config_file, txn>>

\* generate_receipt with the Receipt put at the front of the history
generate_receipt_prepending ==
    IF no_transactions(current_receipt)
    THEN /\ ret' = Raised("generate_receipt", "ValueError")
         /\ UNCHANGED <<config, config_file, current_receipt, receipt_history, receipts_dir, txn>>
    ELSE LET receipt_content == generate_receipt_text(current_receipt)
             filename == join("receipts", get_receipt_filename(current_receipt))
         IN  \E fs \in FsOutcomes :
               CASE fs # "ok" ->
                      /\ ret' = Raised("generate_receipt", "OSError")
                      /\ UNCHANGED <<config, config_file, current_receipt, receipt_history,
                                     receipts_dir, txn>>
                 [] OTHER ->
                      /\ Len(receipt_history) < MaxHistory
                      /\ receipts_dir' = write_file(receipts_dir, filename,
                                                    [whole |-> TRUE, text |-> receipt_content])
                      /\ receipt_history' = <<current_receipt>> \o receipt_history
                      /\ \E now \in {t \in Clock : t >= current_receipt.timestamp} :
                           current_receipt' = Receipt(now)
                      /\ ret' = ReturnedPath("generate_receipt", filename)
                      /\ UNCHANGED <<config, config_file, txn>>

generate_receipt ==
    IF no_transactions(current_receipt)
    THEN /\ ret' = Raised("generate_receipt", "ValueError")
         /\ UNCHANGED <<config, config_file, current_receipt, receipt_history, receipts_dir, txn>>
    ELSE LET receipt_content == generate_receipt_text(current_receipt)
             filename == join("receipts", get_receipt_filename(current_receipt))
         IN  \E fs \in FsOutcomes :
               CASE fs # "ok" ->
                      /\ ret' = Raised("generate_receipt", "OSError")
                      /\ UNCHANGED <<config, config_file, current_receipt, receipt_history,
                                     receipts_dir, txn>>
                 [] OTHER ->
                      /\ Len(receipt_history) < MaxHistory
                      /\ receipts_dir' = write_file(receipts_dir, filename,
                                                    [whole |-> TRUE, text |-> receipt_content])
                      /\ receipt_history' = Append(receipt_history, current_receipt)
                      /\ \E now \in {t \in Clock : t >= current_receipt.timestamp} :
                           current_receipt' = Receipt(now)
                      /\ ret' = ReturnedPath("generate_receipt", filename)
                      /\ UNCHANGED <<config, config_file, txn>>

\* config.write(file) on config.ini: the whole table replaces the file
save_config(cfg, file, fs) ==
    CASE fs = "open_fails" -> file
      [] fs = "write_fails" -> [exists |-> TRUE, sections |-> <<>>]
      [] OTHER -> [exists |-> TRUE, sections |-> cfg]

\* update_pricing that also reprices the transactions of the current Receipt
update_pricing_repricing(service, monochrome_price, colored_price, image_surcharge) ==
    LET c1 == set_monochrome_price(config, service, monochrome_price)
        c2 == set_colored_price(c1, service, colored_price)
        c3 == set_image_surcharge(c2, service, image_surcharge)
    IN  \E fs \in FsOutcomes :
          /\ config' = c3
          /\ config_file' = save_config(c3, config_file, fs)
          /\ ret' = IF fs = "ok" THEN Returned("update_pricing")
                    ELSE Raised("update_pricing", "OSError")
          /\ current_receipt' =
                calculate_total([current_receipt EXCEPT !.transactions =
                    [i \in 1..Len(@) |-> calculate_subtotal(@[i], c3).t]])
          /\ UNCHANGED <<receipt_history, receipts_dir, txn>>

\* update_pricing that puts the old rates back when the save fails
update_pricing_rolled_back(service, monochrome_price, colored_price, image_surcharge) ==
    LET c1 == set_monochrome_price(config, service, monochrome_price)
        c2 == set_colored_price(c1, service, colored_price)
        c3 == set_image_surcharge(c2, service, image_surcharge)
    IN  \E fs \in FsOutcomes :
          /\ config' = IF fs = "ok" THEN c3 ELSE config
          /\ config_file' = save_config(c3, config_file, fs)
          /\ ret' = IF fs = "ok" THEN Returned("update_pricing")
                    ELSE Raised("update_pricing", "OSError")
          /\ UNCHANGED <<current_receipt, receipt_history, receipts_dir, txn>>

\* update_pricing without its save_config() call
update_pricing_unsaved(service, monochrome_price, colored_price, image_surcharge) ==
    LET c1 == set_monochrome_price(config, service, monochrome_price)
        c2 == set_colored_price(c1, service, colored_price)
        c3 == set_image_surcharge(c2, service, image_surcharge)
    IN  /\ config' = c3
        /\ ret' = Returned("update_pricing")
        /\ UNCHANGED <<config_file, current_receipt, receipt_history, receipts_dir, txn>>

update_pricing(service, monochrome_price, colored_price, image_surcharge) ==
    LET c1 == set_monochrome_price(config, service, monochrome_price)
        c2 == set_colored_price(c1, service, colored_price)
        c3 == set_image_surcharge(c2, service, image_surcharge)
    IN  \E fs \in FsOutcomes :
          /\ config' = c3
          /\ config_file' = save_config(c3, config_file, fs)
          /\ ret' = IF fs = "ok" THEN Returned("update_pricing")
                    ELSE Raised("update_pricing", "OSError")
          /\ UNCHANGED <<current_receipt, receipt_history, receipts_dir, txn>>

\* the loop of recalculate_current_transactions: 0 when every
\* calculate_subtotal returns, else the position of the first one that raises
first_raising(transactions, cfg) ==
    LET bad == {i \in 1..Len(transactions) : calculate_subtotal(transactions[i], cfg).exc # "none"}
    IN  IF bad = {} THEN 0 ELSE CHOOSE i \in bad : \A j \in bad : i <= j

\* recalculate_current_transactions without the final calculate_total()
recalculate_current_transactions_no_total ==
    LET transactions == current_receipt.transactions
        f == first_raising(transactions, config)
        done == [i \in 1..Len(transactions) |->
                    IF f = 0 \/ i <= f THEN calculate_subtotal(transactions[i], config).t
                    ELSE transactions[i]]
    IN  /\ current_receipt' = [current_receipt EXCEPT !.transactions = done]
        /\ ret' = IF f = 0 THEN Returned("recalculate_current_transactions")
                  ELSE Raised("recalculate_current_transactions",
                              calculate_subtotal(transactions[f], config).exc)
        /\ UNCHANGED <<config, config_file, receipt_history, receipts_dir, txn>>

\* a recalculation that reprices the receipts of the history as well
recalculate_current_transactions_all ==
    LET transactions == current_receipt.transactions
        reprice(r) == calculate_total([r EXCEPT !.transactions =
                          [i \in 1..Len(@) |-> calculate_subtotal(@[i], config).t]])
    IN  /\ current_receipt' = reprice(current_receipt)
        /\ receipt_history' = [i \in 1..Len(receipt_history) |-> reprice(receipt_history[i])]
        /\ ret' = Returned("recalculate_current_transactions")
        /\ UNCHANGED <<config, config_file, receipts_dir, txn>>

recalculate_current_transactions ==
    LET transactions == current_receipt.transactions
        f == first_raising(transactions, config)
        done == [i \in 1..Len(transactions) |->
                    IF f = 0 \/ i <= f THEN calculate_subtotal(transactions[i], config).t
                    ELSE transactions[i]]
    IN  /\ IF f = 0
           THEN /\ current_receipt' = calculate_total([current_receipt EXCEPT !.transactions = done])
                /\ ret' = Returned("recalculate_current_transactions")
           ELSE /\ current_receipt' = [current_receipt EXCEPT !.transactions = done]
                /\ ret' = Raised("recalculate_current_transactions",
                                 calculate_subtotal(transactions[f], config).exc)
        /\ UNCHANGED <<config, config_file, receipt_history, receipts_dir, txn>>

\* get_transaction_preview that goes through add_transaction for its subtotal
get_transaction_preview_committing(service_type, pages, is_colored, has_images) ==
    LET r == calculate_subtotal(Transaction(service_type, pages, is_colored, has_images), config)
    IN  /\ IF r.exc # "none"
           THEN /\ ret' = Raised("get_transaction_preview", r.exc)
                /\ UNCHANGED current_receipt
           ELSE /\ current_receipt' = Receipt_add_transaction(current_receipt, r.t)
                /\ ret' = ReturnedPreview("get_transaction_preview",
                              [pages |-> pages, base_price |-> 0, base_total |-> r.val,
                               is_colored |-> is_colored, has_images |-> has_images,
                               image_surcharge |-> 0, image_total |-> 0, subtotal |-> r.val])
        /\ UNCHANGED <<config, config_file, receipt_history, receipts_dir, txn>>

\* get_transaction_preview: a temporary Transaction is priced, the rates are
\* looked up once more for the breakdown, and nothing is kept
get_transaction_preview(service_type, pages, is_colored, has_images) ==
    LET temp_transaction == Transaction(service_type, pages, is_colored, has_images)
        subtotal == calculate_subtotal(temp_transaction, config)
        service_name == lower(service_type)
        base_price == IF is_colored THEN get_colored_price(config, service_name)
                      ELSE get_monochrome_price(config, service_name)
        image_surcharge == get_image_surcharge(config, service_name)
    IN  /\ ret' = IF subtotal.exc # "none"
                  THEN Raised("get_transaction_preview", subtotal.exc)
                  ELSE IF base_price.exc # "none"
                  THEN Raised("get_transaction_preview", base_price.exc)
                  ELSE IF has_images /\ image_surcharge.exc # "none"
                  THEN Raised("get_transaction_preview", image_surcharge.exc)
                  ELSE ReturnedPreview("get_transaction_preview",
                          [pages |-> pages,
                           base_price |-> base_price.val,
                           base_total |-> base_price.val * pages,
                           is_colored |-> is_colored,
                           has_images |-> has_images,
                           image_surcharge |-> IF has_images THEN image_surcharge.val ELSE 0,
                           image_total |-> IF has_images THEN image_surcharge.val * pages ELSE 0,
                           subtotal |-> subtotal.val])
        /\ UNCHANGED <<config, config_file, current_receipt, receipt_history, receipts_dir, txn>>

\* a Transaction built on its own and priced against a table, as
\* test_models and the preview do it
Transaction_calculate_subtotal ==
    LET r == calculate_subtotal(txn, config)
    IN  /\ txn' = r.t
        /\ ret' = IF r.exc = "none" THEN ReturnedNumber("calculate_subtotal", r.val)
                  ELSE Raised("calculate_subtotal", r.exc)
        /\ UNCHANGED <<config, config_file, current_receipt, receipt_history, receipts_dir>>

Next ==
    \/ \E a \in AddInputs : add_transaction(a[1], a[2], a[3], a[4])
    \/ \E index \in RemoveInputs : remove_transaction(index)
    \/ clear_current_receipt
    \/ generate_receipt
    \/ \E p \in PricingInputs : update_pricing(p[1], p[2], p[3], p[4])
    \/ recalculate_current_transactions
    \/ \E a \in AddInputs : get_transaction_preview(a[1], a[2], a[3], a[4])

Spec == Init /\ [][Next]_vars

(* ------------------------------- utils --------------------------------- *)
RECURSIVE less(_, _)
\* a < b on two file names: the fields are zero-padded to a fixed width, so
\* the comparison of the strings is the comparison of the fields in the
\* order they are written
less(a, b) ==
    IF a = <<>> \/ b = <<>> THEN a = <<>> /\ b # <<>>
    ELSE IF Head(a) # Head(b) THEN Head(a) < Head(b)
    ELSE less(Tail(a), Tail(b))

\* sorted(files, reverse=True) on paths of one directory: no name below is
\* followed by a greater one
sorted(files) ==
    CHOOSE s \in [1..Cardinality(files) -> files] :
        \A i, j \in 1..Cardinality(files) : i < j => less(s[j][2], s[i][2])

\* get_receipt_files(): the paths of the receipts directory, sorted in
\* descending order of their names (every file of the model is a
\* 'Receipt_*.txt')
get_receipt_files(dir) == sorted(DOMAIN dir)

(* ------------- calculate_subtotal as a function of its inputs ----------- *)
\* page counts given to a Transaction
PagesInputs == {0, 1, 5}

\* price tables: the ones the program starts with, one whose surcharge text
\* is no number, and each of them after an update_pricing call
TableInputs ==
    LET files == PersistedInputs \cup
                 {[exists |-> TRUE,
                   sections |-> [s \in {"SCAN"} |-> [k \in {"image_surcharge"} |-> Malformed]]]}
        start == {PriceConfig(f) : f \in files}
    IN  start \cup
        {set_image_surcharge(set_colored_price(set_monochrome_price(c, p[1], p[2]), p[1], p[3]),
                             p[1], p[4]) : c \in start, p \in PricingInputs}

InitSubtotal ==
    /\ config \in TableInputs
    /\ config_file = NoFile
    /\ current_receipt = Receipt(0)
    /\ receipt_history = <<>>
    /\ receipts_dir = <<>>
    /\ ret = Returned("__init__")
    /\ \E service_type \in ServiceType, pages \in PagesInputs,
          is_colored \in BOOLEAN, has_images \in BOOLEAN :
         txn = Transaction(service_type, pages, is_colored, has_images)

SpecSubtotal == InitSubtotal /\ [][Transaction_calculate_subtotal]_vars

(* ------------------ the GUI program (views/main_window.py) -------------- *)
\* main.py runs MainWindow, which holds a PriceConfig and a Receipt of its own
\* and no POSController: config and current_receipt are then MainWindow's,
\* receipt_history stays empty.  An exception that leaves a handler is shown
\* in ret and the state is as the handler left it.

\* (service_type, pages, is_colored, has_images) entered in the ServiceDialog,
\* whose page spin box runs from 1 to 1000
DialogInputs ==
    {<<"Print", 5, TRUE, TRUE>>, <<"Photocopy", 3, FALSE, FALSE>>, <<"Scan", 1, TRUE, FALSE>>}

\* rows the transaction list can report as selected: -1 is none
RowInputs == -1..(MaxTx - 1)

\* what the user types in the PricingDialog: nothing, or the rates of one service
EditInputs == {<<>>} \cup PricingInputs

\* QDoubleSpinBox.setValue with setDecimals(2) and setRange(minimum, maximum)
setValue(minimum, maximum, value) ==
    LET rounded == fmt2(value) * 10
    IN  IF rounded < minimum THEN minimum ELSE IF rounded > maximum THEN maximum ELSE rounded

MainWindow ==
    /\ \E file \in PersistedInputs :
         /\ config_file = file
         /\ config = PriceConfig(file)
    /\ current_receipt = Receipt(0)
    /\ receipt_history = <<>>
    /\ receipts_dir = <<>>
    /\ ret = Returned("MainWindow.__init__")
    /\ txn = None

\* add_service: the dialog builds and prices the Transaction
\* (accept_transaction refuses pages <= 0), the Receipt takes it
MainWindow_add_service(service_type, pages, is_colored, has_images) ==
    LET r == calculate_subtotal(Transaction(service_type, pages, is_colored, has_images), config)
    IN  /\ Len(current_receipt.transactions) < MaxTx
        /\ IF pages <= 0
           THEN /\ ret' = Returned("MainWindow.add_service")
                /\ UNCHANGED current_receipt
           ELSE IF r.exc # "none"
           THEN /\ ret' = Raised("MainWindow.add_service", r.exc)
                /\ UNCHANGED current_receipt
           ELSE /\ current_receipt' =
                      calculate_total(Receipt_add_transaction(current_receipt, r.t))
                /\ ret' = Returned("MainWindow.add_service")
        /\ UNCHANGED <<config, config_file, receipt_history, receipts_dir, txn>>

MainWindow_remove_transaction(current_row) ==
    /\ current_receipt' =
          IF current_row >= 0
          THEN calculate_total(Receipt_remove_transaction(current_receipt, current_row).r)
          ELSE current_receipt
    /\ ret' = Returned("MainWindow.remove_transaction")
    /\ UNCHANGED <<config, config_file, receipt_history, receipts_dir, txn>>

\* clear_all_transactions, the question answered with Yes
MainWindow_clear_all_transactions ==
    /\ IF current_receipt.transactions # <<>>
       THEN \E now \in {t \in Clock : t >= current_receipt.timestamp} :
               current_receipt' = calculate_total(Receipt(now))
       ELSE UNCHANGED current_receipt
    /\ ret' = Returned("MainWindow.clear_all_transactions")
    /\ UNCHANGED <<config, config_file, receipt_history, receipts_dir, txn>>

\* open_pricing_dialog: the nine spin boxes are loaded from the table, the
\* user edits one service or none and presses Save: save_changes sets all nine
\* rates and saves; when the save went through the dialog is accepted and the
\* transactions of the Receipt are repriced, otherwise the user cancels
MainWindow_open_pricing_dialog(edit) ==
    LET services == {"print", "photocopy", "scan"}
        raising == \E service \in services :
                      \/ get_monochrome_price(config, service).exc # "none"
                      \/ get_colored_price(config, service).exc # "none"
                      \/ get_image_surcharge(config, service).exc # "none"
        edited(service) == edit # <<>> /\ edit[1] = service
        mono_spinbox(service) ==
            IF edited(service) THEN edit[2]
            ELSE setValue(10, 10000, get_monochrome_price(config, service).val)
        color_spinbox(service) ==
            IF edited(service) THEN edit[3]
            ELSE setValue(10, 10000, get_colored_price(config, service).val)
        image_spinbox(service) ==
            IF edited(service) THEN edit[4]
            ELSE setValue(0, 5000, get_image_surcharge(config, service).val)
        set(cfg, service) ==
            set_image_surcharge(
                set_colored_price(
                    set_monochrome_price(cfg, service, mono_spinbox(service)),
                    service, color_spinbox(service)),
                service, image_spinbox(service))
        saved == set(set(set(config, "print"), "photocopy"), "scan")
        transactions == current_receipt.transactions
    IN  IF raising
        THEN /\ ret' = Raised("MainWindow.open_pricing_dialog", "ValueError")
             /\ UNCHANGED <<config, config_file, current_receipt, receipt_history,
                            receipts_dir, txn>>
        ELSE \E fs \in FsOutcomes :
               /\ config' = saved
               /\ config_file' = save_config(saved, config_file, fs)
               /\ current_receipt' =
                     IF fs = "ok"
                     THEN calculate_total([current_receipt EXCEPT !.transactions =
                              [i \in 1..Len(transactions) |->
                                  calculate_subtotal(transactions[i], saved).t]])
                     ELSE current_receipt
               /\ ret' = Returned("MainWindow.open_pricing_dialog")
               /\ UNCHANGED <<receipt_history, receipts_dir, txn>>

\* MainWindow.generate_receipt: the handler creates the directory and writes
\* the file itself; a failure ends in a message box
MainWindow_generate_receipt ==
    IF no_transactions(current_receipt)
    THEN /\ ret' = Returned("MainWindow.generate_receipt")
         /\ UNCHANGED <<config, config_file, current_receipt, receipt_history, receipts_dir, txn>>
    ELSE LET receipt_content == generate_receipt_text(current_receipt)
             filename == join("receipts", get_receipt_filename(current_receipt))
         IN  \E fs \in FsOutcomes :
               /\ IF fs # "ok"
                  THEN UNCHANGED <<current_receipt, receipts_dir>>
                  ELSE /\ receipts_dir' = write_file(receipts_dir, filename,
                                                     [whole |-> TRUE, text |-> receipt_content])
                       /\ \E now \in {t \in Clock : t >= current_receipt.timestamp} :
                            current_receipt' = calculate_total(Receipt(now))
               /\ ret' = Returned("MainWindow.generate_receipt")
               /\ UNCHANGED <<config, config_file, receipt_history, txn>>

NextGui ==
    \/ \E a \in DialogInputs : MainWindow_add_service(a[1], a[2], a[3], a[4])
    \/ \E current_row \in RowInputs : MainWindow_remove_transaction(current_row)
    \/ MainWindow_clear_all_transactions
    \/ \E edit \in EditInputs : MainWindow_open_pricing_dialog(edit)
    \/ MainWindow_generate_receipt

SpecGui == MainWindow /\ [][NextGui]_vars

(* ======================== the claims' vocabulary ======================== *)
\* the section of the price table that belongs to a service category
Section(service_type) ==
    CASE service_type = "Print" -> "PRINT"
      [] service_type = "Photocopy" -> "PHOTOCOPY"
      [] OTHER -> "SCAN"

\* the table holds a number for this rate of the category
IsRate(cfg, service_type, option) ==
    /\ Section(service_type) \in DOMAIN cfg
    /\ option \in DOMAIN cfg[Section(service_type)]
    /\ cfg[Section(service_type)][option].kind = "dec"

Rate(cfg, service_type, option) == cfg[Section(service_type)][option].val

\* the rates the subtotal formula reads for t are numbers in the table
RatesDefined(cfg, t) ==
    /\ IsRate(cfg, t.service_type, IF t.is_colored THEN "colored_price" ELSE "monochrome_price")
    /\ t.has_images => IsRate(cfg, t.service_type, "image_surcharge")

\* base * pages, plus image_surcharge * pages exactly when has_images
Formula(cfg, t) ==
    (IF t.is_colored THEN Rate(cfg, t.service_type, "colored_price")
     ELSE Rate(cfg, t.service_type, "monochrome_price")) * t.pages
    + (IF t.has_images THEN Rate(cfg, t.service_type, "image_surcharge") * t.pages ELSE 0)

RECURSIVE Sigma(_, _)
\* the sum of the cached subtotals of the first n transactions
Sigma(transactions, n) ==
    IF n = 0 THEN 0 ELSE Sigma(transactions, n - 1) + transactions[n].subtotal

\* the three options of a section, and the getter that reads each
Options == {"monochrome_price", "colored_price", "image_surcharge"}

Lookup(cfg, service_type, option) ==
    CASE option = "monochrome_price" -> get_monochrome_price(cfg, lower(service_type))
      [] option = "colored_price" -> get_colored_price(cfg, lower(service_type))
      [] OTHER -> get_image_surcharge(cfg, lower(service_type))

\* the built-in default of a rate, and a lookup that returns the number x
Default(service_type, option) == load_default_config[Section(service_type)][option].val

Gives(x) == [exc |-> "none", val |-> x]

\* the persisted file holds this option of the category
Persisted(file, service_type, option) ==
    /\ file.exists
    /\ Section(service_type) \in DOMAIN file.sections
    /\ option \in DOMAIN file.sections[Section(service_type)]

RECURSIVE Shown(_, _)
\* the sum of the amounts printed on the first n transaction lines, in centavos
Shown(lines, n) ==
    IF n = 0 THEN 0 ELSE Shown(lines, n - 1) + lines[n].text.subtotal

\* the Receipts the controller holds: the current one and those of the history
Receipts == {current_receipt} \cup {receipt_history[i] : i \in 1..Len(receipt_history)}

\* the text lists the transactions of r in their order, one line each,
\* numbered from 1
ListsInOrder(r) ==
    LET text == generate_receipt_text(r)
    IN  /\ Len(text.lines) = Len(r.transactions)
        /\ \A i \in 1..Len(r.transactions) :
              /\ text.lines[i].number = i
              /\ text.lines[i].text = to_string(r.transactions[i])

\* category, page count and flags of a transaction
Fields(t) == <<t.service_type, t.pages, t.is_colored, t.has_images>>

\* a sequence with its k-th element (1-based) taken out
Without(transactions, k) ==
    [i \in 1..(Len(transactions) - 1) |->
        IF i < k THEN transactions[i] ELSE transactions[i + 1]]

\* config.ini after a save that failed: as it was, or emptied by open(.., 'w')
NotSaved(file) == {file, [exists |-> TRUE, sections |-> <<>>]}

InRange(index, r) == 0 <= index /\ index < Len(r.transactions)

(* =============================== claims ================================= *)
\* C1: in every reachable state the cached total of the current Receipt is the
\* sum of the cached subtotals of its transactions.
C1_TotalIsSumOfSubtotals ==
    current_receipt.total =
        Sigma(current_receipt.transactions, Len(current_receipt.transactions))

\* C1 witness: a remove has left one transaction, with a non-zero total.
C1_Witness ==
    /\ ret.op = "remove_transaction"
    /\ Len(current_receipt.transactions) = 1
    /\ current_receipt.total > 0

\* C2 (as claimed): remove_transaction(index) returns true exactly when
\* 0 <= index < len, and false for every other index.
C2_RemoveReportsInvalidIndex ==
    [][\A index \in RemoveInputs :
          (ret'.op = "remove_transaction" /\ remove_transaction(index))
              => (ret'.bool = InRange(index, current_receipt))]_vars

\* C3: a remove with an index outside [0, len) leaves the current Receipt as it
\* was: the same transactions in the same order, the same subtotals and total.
C3_InvalidRemoveChangesNothing ==
    [][\A index \in RemoveInputs :
          (ret'.op = "remove_transaction" /\ ~InRange(index, current_receipt)
             /\ remove_transaction(index))
              => current_receipt' = current_receipt]_vars

\* C3 witness: after a remove the Receipt still holds MaxTx transactions, so the
\* remove was one that took nothing out (none leaves a full Receipt otherwise).
C3_Witness ==
    /\ ret.op = "remove_transaction"
    /\ Len(current_receipt.transactions) = MaxTx

\* C4: generate_receipt on a Receipt without transactions raises the
\* empty-receipt error and changes neither the receipts directory, nor the
\* history, nor the current Receipt.
C4_EmptyGenerateFails ==
    [][(ret'.op = "generate_receipt" /\ current_receipt.transactions = <<>>)
          => /\ ret'.exc = "ValueError"
             /\ UNCHANGED <<receipts_dir, receipt_history, current_receipt>>]_vars

\* C4 witness: generate_receipt has raised on an empty Receipt.
C4_Witness ==
    /\ ret.op = "generate_receipt"
    /\ ret.exc = "ValueError"
    /\ current_receipt.transactions = <<>>

\* C5: a generate_receipt that returns has written the rendered text of the
\* (non-empty) Receipt to receipts/<filename()> and nothing else, has appended
\* that Receipt at the end of the history, has put a Receipt without
\* transactions and with total 0 in its place, and returns the written path.
C5_GenerateExports ==
    [][(ret'.op = "generate_receipt" /\ ret'.exc = "none")
          => LET path == <<"receipts", get_receipt_filename(current_receipt)>>
             IN  /\ current_receipt.transactions # <<>>
                 /\ DOMAIN receipts_dir' = DOMAIN receipts_dir \cup {path}
                 /\ receipts_dir'[path] =
                       [whole |-> TRUE, text |-> generate_receipt_text(current_receipt)]
                 /\ \A q \in DOMAIN receipts_dir \ {path} : receipts_dir'[q] = receipts_dir[q]
                 /\ receipt_history' = Append(receipt_history, current_receipt)
                 /\ current_receipt'.transactions = <<>>
                 /\ current_receipt'.total = 0
                 /\ ret'.path = <<path>>]_vars

\* C5 witness: a second export has returned; the history holds two receipts.
C5_Witness ==
    /\ ret.op = "generate_receipt"
    /\ ret.exc = "none"
    /\ Len(receipt_history) = 2
    /\ current_receipt.transactions = <<>>

\* C6: when the directory creation or the write inside generate_receipt fails,
\* the failure is raised and the current Receipt and the history are as before.
C6_FailedExportKeepsState ==
    [][(ret'.op = "generate_receipt" /\ current_receipt.transactions # <<>>
          /\ ret'.exc # "none")
          => /\ ret'.exc = "OSError"
             /\ UNCHANGED <<current_receipt, receipt_history>>]_vars

\* C6 witness: an export has failed on a Receipt that holds transactions.
C6_Witness ==
    /\ ret.op = "generate_receipt"
    /\ ret.exc = "OSError"
    /\ current_receipt.transactions # <<>>
    /\ current_receipt.total > 0

\* C7: for every category, page count and flag combination, calculate_subtotal
\* on a table that holds numbers for the rates it names returns and stores
\* base * pages, plus image_surcharge * pages exactly when has_images.
C7_SubtotalFormula ==
    (ret.op = "calculate_subtotal" /\ RatesDefined(config, txn))
        => /\ ret.exc = "none"
           /\ ret.number = Formula(config, txn)
           /\ txn.subtotal = Formula(config, txn)

\* C7 witness: a monochrome transaction with images has been priced, its
\* surcharge included.
C7_Witness ==
    /\ ret.op = "calculate_subtotal"
    /\ ret.exc = "none"
    /\ txn.has_images /\ ~txn.is_colored /\ txn.pages > 0
    /\ txn.subtotal > Rate(config, txn.service_type, "monochrome_price") * txn.pages

\* C8 (as claimed): add_transaction always succeeds, appends exactly the
\* Transaction it returns at the end of the current Receipt, priced against the
\* table as it is at the call, and leaves the earlier transactions alone.
C8_AddAlwaysSucceeds ==
    [][ret'.op = "add_transaction"
          => /\ ret'.exc = "none"
             /\ Len(ret'.transaction) = 1
             /\ current_receipt'.transactions =
                   Append(current_receipt.transactions, ret'.transaction[1])
             /\ ret'.transaction[1].subtotal = Formula(config, ret'.transaction[1])]_vars

\* C9: update_pricing on its own leaves the cached subtotal of every
\* transaction of the current Receipt, and the Receipt's total, as they were.
C9_UpdateKeepsCachedValues ==
    [][ret'.op = "update_pricing" => current_receipt' = current_receipt]_vars

\* C9 witness: after update_pricing the Receipt holds a transaction whose
\* cached subtotal is not what the new table gives.
C9_Witness ==
    /\ ret.op = "update_pricing"
    /\ \E i \in 1..Len(current_receipt.transactions) :
         /\ RatesDefined(config, current_receipt.transactions[i])
         /\ current_receipt.transactions[i].subtotal #
               Formula(config, current_receipt.transactions[i])

\* C10: recalculate_current_transactions returns with every transaction of the
\* current Receipt unchanged but for its subtotal, which is the formula applied
\* to its own fields and the current table, and with the total their sum.
C10_RecalculateReprices ==
    [][ret'.op = "recalculate_current_transactions"
          => /\ ret'.exc = "none"
             /\ Len(current_receipt'.transactions) = Len(current_receipt.transactions)
             /\ \A i \in 1..Len(current_receipt.transactions) :
                  /\ RatesDefined(config, current_receipt.transactions[i])
                  /\ current_receipt'.transactions[i] =
                        [current_receipt.transactions[i] EXCEPT
                            !.subtotal = Formula(config, current_receipt.transactions[i])]
             /\ current_receipt'.total =
                   Sigma(current_receipt'.transactions, Len(current_receipt'.transactions))
             /\ current_receipt'.timestamp = current_receipt.timestamp]_vars

\* C10 witness: a recalculation has run on two transactions after a price
\* change: the colored print of 5 pages with images stands at 9 + 3 a page.
C10_Witness ==
    /\ ret.op = "recalculate_current_transactions"
    /\ Len(current_receipt.transactions) = 2
    /\ current_receipt.transactions[1].service_type = "Print"
    /\ current_receipt.transactions[1].subtotal = 60000
    /\ current_receipt.total > 60000

\* C11: on the table built without a persisted file, add_transaction(Print, 5,
\* colored, with images) on the empty Receipt gives subtotal 50.00 and total
\* 50.00; update_pricing(Print, 6, 9, 3) followed by
\* recalculate_current_transactions leaves that transaction at 60.00 and the
\* total at 60.00.
C11_EndToEndExample ==
    [][/\ (ret'.op = "add_transaction" /\ add_transaction("Print", 5, TRUE, TRUE)
             /\ config = PriceConfig(NoFile) /\ current_receipt.transactions = <<>>)
          => /\ ret'.exc = "none"
             /\ ret'.transaction[1].subtotal = 50000
             /\ current_receipt'.transactions[1].subtotal = 50000
             /\ current_receipt'.total = 50000
       /\ (ret.op = "update_pricing" /\ ret'.op = "recalculate_current_transactions"
             /\ config = set_image_surcharge(set_colored_price(set_monochrome_price(
                            PriceConfig(NoFile), "print", 6000), "print", 9000), "print", 3000)
             /\ current_receipt.transactions =
                   <<[Transaction("Print", 5, TRUE, TRUE) EXCEPT !.subtotal = 50000]>>)
          => /\ ret'.exc = "none"
             /\ current_receipt'.transactions =
                   <<[Transaction("Print", 5, TRUE, TRUE) EXCEPT !.subtotal = 60000]>>
             /\ current_receipt'.total = 60000]_vars

\* C11 witness: the example has run to its end: the default table with the
\* print rates at 6, 9 and 3, and the one colored print of 5 pages with images
\* repriced to 60.00.
C11_Witness ==
    /\ ret.op = "recalculate_current_transactions"
    /\ config["PHOTOCOPY"] = load_default_config["PHOTOCOPY"]
    /\ config["PRINT"]["colored_price"] = str(9000)
    /\ current_receipt.transactions =
          <<[Transaction("Print", 5, TRUE, TRUE) EXCEPT !.subtotal = 60000]>>
    /\ current_receipt.total = 60000

\* C12 (as claimed): after construction from a persisted file, the lookup of a
\* field whose persisted text is no decimal returns the default of that field,
\* and the lookup of every other persisted field returns the persisted value.
C12_MalformedFallsBack ==
    ret.op = "__init__" =>
        \A service_type \in ServiceType, option \in Options :
            Persisted(config_file, service_type, option) =>
                LET text == config_file.sections[Section(service_type)][option]
                IN  Lookup(config, service_type, option) =
                       Gives(IF text.kind = "dec" THEN text.val
                             ELSE Default(service_type, option))

\* C13 (as claimed): in every reachable state every rate lookup of Print,
\* Photocopy and Scan returns a number, and a lookup for a category without a
\* section returns the fixed fallback (0.10, 0.25, 0.05).
C13_LookupsNeverFail ==
    /\ \A service_type \in ServiceType, option \in Options :
          Lookup(config, service_type, option).exc = "none"
    /\ get_monochrome_price(config, "binding") = Gives(100)
    /\ get_colored_price(config, "binding") = Gives(250)
    /\ get_image_surcharge(config, "binding") = Gives(50)

\* C14: after construction the lookup of every field the persisted file does
\* not hold returns the built-in default, and the lookup of every field it
\* holds as a decimal returns the persisted value; without a file the table is
\* the built-in defaults, and a save from there writes the table.
C14_LoadOverlaysDefaults ==
    /\ [](ret.op = "__init__" =>
            /\ \A service_type \in ServiceType, option \in Options :
                  IF ~Persisted(config_file, service_type, option)
                  THEN Lookup(config, service_type, option) = Gives(Default(service_type, option))
                  ELSE LET text == config_file.sections[Section(service_type)][option]
                       IN  text.kind = "dec" =>
                              Lookup(config, service_type, option) = Gives(text.val)
            /\ ~config_file.exists => config = load_default_config)
    /\ [][(~config_file.exists /\ ret'.op = "update_pricing" /\ ret'.exc = "none")
             => config_file' = [exists |-> TRUE, sections |-> config']]_vars

\* C14 witness: the table built from a file that holds one option of the
\* PHOTOCOPY section: that option is the persisted 3.008, its neighbour the
\* default 5.00.
C14_Witness ==
    /\ ret.op = "__init__"
    /\ config_file.exists
    /\ Persisted(config_file, "Photocopy", "monochrome_price")
    /\ ~Persisted(config_file, "Photocopy", "colored_price")
    /\ Lookup(config, "Photocopy", "monochrome_price") = Gives(3008)
    /\ Lookup(config, "Photocopy", "colored_price") = Gives(5000)

\* C15: after a save, a fresh table loaded from the persisted file answers
\* every rate lookup of the three categories as the saved table does.
C15_SaveLoadRoundTrip ==
    (ret.op = "update_pricing" /\ ret.exc = "none") =>
        \A service_type \in ServiceType, option \in Options :
            Lookup(PriceConfig(config_file), service_type, option) =
                Lookup(config, service_type, option)

\* C15 witness: a save has written a table that holds rates other than the
\* defaults: the persisted 3.008 and the updated print rates.
C15_Witness ==
    /\ ret.op = "update_pricing"
    /\ ret.exc = "none"
    /\ Lookup(config, "Photocopy", "monochrome_price") = Gives(3008)
    /\ Lookup(config, "Print", "colored_price") = Gives(9000)
    /\ Lookup(PriceConfig(config_file), "Photocopy", "monochrome_price") = Gives(3008)

\* C16: an update_pricing call that returns has set the three rates of its
\* category in the table to its arguments, and the persisted file is then the
\* whole table and nothing else.
C16_UpdateSetsAndSaves ==
    [][\A p \in PricingInputs :
          (ret'.op = "update_pricing" /\ ret'.exc = "none"
             /\ update_pricing(p[1], p[2], p[3], p[4]))
              => /\ get_monochrome_price(config', p[1]) = Gives(p[2])
                 /\ get_colored_price(config', p[1]) = Gives(p[3])
                 /\ get_image_surcharge(config', p[1]) = Gives(p[4])
                 /\ config_file' = [exists |-> TRUE, sections |-> config']]_vars

\* C16 witness: update_pricing has returned where the file found at start held
\* two options only: the file now holds the SCAN section too.
C16_Witness ==
    /\ ret.op = "update_pricing"
    /\ ret.exc = "none"
    /\ Lookup(config, "Photocopy", "monochrome_price") = Gives(3008)
    /\ config_file.exists
    /\ "SCAN" \in DOMAIN config_file.sections
    /\ config_file.sections["PRINT"]["monochrome_price"] = str(6000)

C18_ListingMostRecentFirst ==
    LET files == get_receipt_files(receipts_dir)
    IN  \A i, j \in 1..Len(receipt_history) :
           receipt_history[i].timestamp > receipt_history[j].timestamp =>
              \E m, n \in 1..Len(files) :
                 /\ m < n
                 /\ files[m] = <<"receipts", get_receipt_filename(receipt_history[i])>>
                 /\ files[n] = <<"receipts", get_receipt_filename(receipt_history[j])>>

\* C19: get_transaction_preview leaves the table, the persisted file, the
\* current Receipt, the history and the receipts directory as they were; when
\* it returns, its subtotal is the one calculate_subtotal gives a Transaction
\* of the same arguments on the same table (the formula of C7), and is
\* base_total + image_total of the breakdown it returns.
C19_PreviewIsPure ==
    [][\A a \in AddInputs :
          (ret'.op = "get_transaction_preview"
             /\ get_transaction_preview(a[1], a[2], a[3], a[4]))
              => LET t == Transaction(a[1], a[2], a[3], a[4])
                 IN  /\ UNCHANGED <<config, config_file, current_receipt, receipt_history,
                                    receipts_dir>>
                     /\ (ret'.exc = "none") = (calculate_subtotal(t, config).exc = "none")
                     /\ ret'.exc = "none" =>
                           /\ RatesDefined(config, t)
                           /\ ret'.preview[1].subtotal = Formula(config, t)
                           /\ ret'.preview[1].subtotal = calculate_subtotal(t, config).t.subtotal
                           /\ ret'.preview[1].subtotal =
                                 ret'.preview[1].base_total + ret'.preview[1].image_total]_vars

\* C19 witness: a preview of the colored print of 5 pages with images has
\* returned 50.00 = 40.00 + 10.00 while the current Receipt holds a transaction.
C19_Witness ==
    /\ ret.op = "get_transaction_preview"
    /\ ret.exc = "none"
    /\ ret.preview[1].subtotal = 50000
    /\ ret.preview[1].base_total = 40000
    /\ ret.preview[1].image_total = 10000
    /\ Len(current_receipt.transactions) = 1

\* C20 (as claimed): the text of every Receipt the controller holds lists its
\* transactions in insertion order, numbered from 1, one line each, and the
\* amount on the TOTAL line is the sum of the amounts shown on those lines.
C20_TotalIsSumOfShown ==
    \A r \in Receipts :
        /\ ListsInOrder(r)
        /\ generate_receipt_text(r).total =
              Shown(generate_receipt_text(r).lines, Len(r.transactions))

\* C20 (amended): the text of every Receipt the controller holds lists its
\* transactions in insertion order, numbered from 1, one line each, and the
\* amount on the TOTAL line is the sum of the transactions' computed subtotals,
\* formatted to 2 decimals.
C20_TotalIsFormattedSum ==
    \A r \in Receipts :
        /\ ListsInOrder(r)
        /\ generate_receipt_text(r).total = fmt2(Sigma(r.transactions, Len(r.transactions)))

\* C20 witness: two photocopies of 3 pages at 3.008 a page: each line shows
\* 9.02, the TOTAL line 18.05.
C20_Witness ==
    /\ Len(current_receipt.transactions) = 2
    /\ generate_receipt_text(current_receipt).lines[1].text.subtotal = 902
    /\ generate_receipt_text(current_receipt).lines[2].text.subtotal = 902
    /\ generate_receipt_text(current_receipt).total = 1805

\* C21 (as claimed): every transaction of a Receipt the controller holds has a
\* page count of at least 1.
C21_PagesAtLeastOne ==
    \A r \in Receipts : \A i \in 1..Len(r.transactions) : r.transactions[i].pages >= 1

C23_HistoryIsFrozen ==
    [][/\ Len(receipt_history') >= Len(receipt_history)
       /\ \A i \in 1..Len(receipt_history) : receipt_history'[i] = receipt_history[i]]_vars

\* C23 witness: after a price change a recalculation has repriced the current
\* Receipt while the exported one still stands at the old price.
C23_Witness ==
    /\ ret.op = "recalculate_current_transactions"
    /\ Len(receipt_history) >= 1
    /\ receipt_history[1].transactions[1] =
          [Transaction("Print", 5, TRUE, TRUE) EXCEPT !.subtotal = 50000]
    /\ receipt_history[1].total = 50000
    /\ Len(current_receipt.transactions) >= 1
    /\ current_receipt.transactions[1] =
          [Transaction("Print", 5, TRUE, TRUE) EXCEPT !.subtotal = 60000]

\* C24: category, page count and flags of a transaction never change while it
\* is in a Receipt, and its subtotal changes in recalculate_current_transactions
\* only: add, update_pricing and preview keep the transactions of the current
\* Receipt, remove keeps all but one, an export moves them to the history.
C24_TransactionsChangeOnlyInRecalculate ==
    [][LET old == current_receipt.transactions
           new == current_receipt'.transactions
       IN  /\ ret'.op \in {"add_transaction", "update_pricing", "get_transaction_preview"}
                => /\ Len(new) >= Len(old)
                   /\ \A i \in 1..Len(old) : new[i] = old[i]
           /\ ret'.op = "recalculate_current_transactions"
                => /\ Len(new) = Len(old)
                   /\ \A i \in 1..Len(old) : Fields(new[i]) = Fields(old[i])
           /\ ret'.op = "remove_transaction"
                => \/ new = old
                   \/ \E k \in 1..Len(old) : new = Without(old, k)
           /\ (ret'.op = "generate_receipt" /\ ret'.exc = "none")
                => receipt_history'[Len(receipt_history')].transactions = old
           /\ (ret'.op = "generate_receipt" /\ ret'.exc # "none") => new = old
           /\ \A i \in 1..Len(receipt_history) :
                 receipt_history'[i].transactions = receipt_history[i].transactions]_vars

\* C24 witness: a recalculation has moved the colored print of 5 pages with
\* images, second in the Receipt, to 60.00; its fields are as it was added.
C24_Witness ==
    /\ ret.op = "recalculate_current_transactions"
    /\ Len(current_receipt.transactions) = 2
    /\ current_receipt.transactions[1].service_type = "Photocopy"
    /\ current_receipt.transactions[2] =
          [Transaction("Print", 5, TRUE, TRUE) EXCEPT !.subtotal = 60000]

\* C26: clear_current_receipt puts a Receipt without transactions and with
\* total 0 in place of the current one and leaves the history, the receipts
\* directory, the table and the persisted file as they were.
C26_ClearResetsOnlyTheReceipt ==
    [][ret'.op = "clear_current_receipt"
          => /\ current_receipt'.transactions = <<>>
             /\ current_receipt'.total = 0
             /\ ret'.exc = "none"
             /\ UNCHANGED <<receipt_history, receipts_dir, config, config_file>>]_vars

\* C26 witness: a clear has returned with a receipt in the history, its file in
\* the directory and a saved table.
C26_Witness ==
    /\ ret.op = "clear_current_receipt"
    /\ current_receipt = Receipt(1)
    /\ Len(receipt_history) = 1
    /\ receipts_dir # <<>>
    /\ config_file = [exists |-> TRUE, sections |-> config]
    /\ config["PRINT"]["colored_price"] = str(9000)

\* C27 (as claimed): when the save inside update_pricing fails, the failure is
\* raised, the table holds the new rates of the category, and the persisted
\* file is not the new table.
C27_FailedSaveLeavesFileDifferent ==
    [][\A p \in PricingInputs :
          (ret'.op = "update_pricing" /\ ret'.exc # "none"
             /\ update_pricing(p[1], p[2], p[3], p[4]))
              => /\ get_monochrome_price(config', p[1]) = Gives(p[2])
                 /\ get_colored_price(config', p[1]) = Gives(p[3])
                 /\ get_image_surcharge(config', p[1]) = Gives(p[4])
                 /\ config_file' # [exists |-> TRUE, sections |-> config']]_vars

\* C27 (amended): when the save inside update_pricing fails, the failure is
\* raised, the table holds the new rates of the category, and the persisted
\* file is as it was before the call or emptied: the call has not written the
\* new table.
C27_FailedSaveKeepsNewRates ==
    [][\A p \in PricingInputs :
          (ret'.op = "update_pricing" /\ ret'.exc # "none"
             /\ update_pricing(p[1], p[2], p[3], p[4]))
              => /\ ret'.exc = "OSError"
                 /\ get_monochrome_price(config', p[1]) = Gives(p[2])
                 /\ get_colored_price(config', p[1]) = Gives(p[3])
                 /\ get_image_surcharge(config', p[1]) = Gives(p[4])
                 /\ config_file' \in NotSaved(config_file)]_vars

\* C27 witness: update_pricing has raised with no file on disk; the table holds
\* the print rates 6, 9 and 3.
C27_Witness ==
    /\ ret.op = "update_pricing"
    /\ ret.exc = "OSError"
    /\ ~config_file.exists
    /\ Lookup(config, "Print", "monochrome_price") = Gives(6000)
    /\ Lookup(config, "Print", "colored_price") = Gives(9000)
    /\ Lookup(config, "Print", "image_surcharge") = Gives(3000)

\* C28: the history starts empty, holds only Receipts with at least one
\* transaction, grows by exactly the exported Receipt, at its end, in each
\* generate_receipt that returns, and is left alone by every other step.
C28_HistoryGrowsByExports ==
    /\ [](/\ ret.op = "__init__" => receipt_history = <<>>
          /\ \A i \in 1..Len(receipt_history) : receipt_history[i].transactions # <<>>)
    /\ [][IF ret'.op = "generate_receipt" /\ ret'.exc = "none"
          THEN receipt_history' = Append(receipt_history, current_receipt)
          ELSE receipt_history' = receipt_history]_vars

\* C28 witness: two exports have returned: the history holds the receipt of
\* the first second before the one of the next.
C28_Witness ==
    /\ Len(receipt_history) = 2
    /\ receipt_history[1].timestamp = 0
    /\ receipt_history[2].timestamp = 1
    /\ receipt_history[1].transactions # <<>>
    /\ receipt_history[2].transactions # <<>>

\* C25 (as claimed): a file of the receipts directory is created or changed
\* only by POSController.generate_receipt, never by a handler of the GUI.
C25_OnlyControllerWritesReceipts ==
    [][receipts_dir' # receipts_dir => ret'.op = "generate_receipt"]_vars

====
